---- MODULE Spec2Model ----
(***************************************************************************)
(* A model of the storage housekeeping of HouseMotion                      *)
(* (src/housemotion_store.c): the ring of recent Motion events, the scan   *)
(* of the recording tree, the change marker, the storage quota cleanup and *)
(* the metrics ring.  Times are seconds (time_t), strings are sequences of *)
(* one-character strings, the file system is a finite tree of candidate    *)
(* paths.                                                                  *)
(***************************************************************************)
EXTENDS Integers, Sequences, FiniteSets, TLC

VARIABLES
    now,                       \* the wall clock, what time(0) returns
    HouseMotionMaxSpace,       \* -motion-clean= option, 0: no cleanup
    HouseMotionStorage,        \* root of the recordings, <<>> when not set (null)
    HouseMotionChanged,        \* the change marker, 0 when never set
    HouseMotionRecentEvents,   \* ring of the recent events, indexed 0..DEPTH-1
    HouseMotionEventCursor,    \* where the next event is written
    HouseMotionMetricsLatest,  \* metrics ring, indexed 0..SPAN-1
    lastcheck,                 \* static of housemotion_store_background
    LastStorageCheck,          \* static of housemotion_store_metrics
    files,                     \* the regular files: path -> [mtime, size], mtime 0: no file
    dirs,                      \* the directories that exist
    last,                      \* the operation that ran last, and its outcome
    out,                       \* what the last status request produced
    checked,                   \* what the last housemotion_store_check returned, 0: never called
    hist,                      \* the events recorded since Init, oldest first (observer)
    tick,                      \* what the last background call did (observer)
    moves                      \* how many steps the environment took (observer)

vars == << now, HouseMotionMaxSpace, HouseMotionStorage, HouseMotionChanged,
           HouseMotionRecentEvents, HouseMotionEventCursor,
           HouseMotionMetricsLatest, lastcheck, LastStorageCheck,
           files, dirs, last, out, checked, hist, tick, moves >>

(***************************************************************************)
(* Bounds of the model.                                                    *)
(***************************************************************************)
\* the time at which a run starts
StartTime == 1000
\* how many times, in one run of each specification, the clock moves, Motion
\* writes a file, Motion reports an event or the storage location is set
MaxScanSteps == 3
MaxMarkerSteps == 3
MaxQuotaSteps == 2
\* how many events are reported in one run of the ring specification, and
\* how many seconds pass
MaxRingEvents == 10
MaxRingTime == 1
\* how many times the clock moves in one run of the metrics specification
MaxMetricsSteps == 3
\* how many notifications Motion sends and how many times the clock moves in
\* one run of the notification specification
MaxNotifySteps == 3
\* how many times the clock moves, Motion writes a file or reports an event
\* in one run of the correlation specification
MaxCorrelateSteps == 3
\* how many seconds pass in one run of the eviction specification
MaxEvictTime == 5
\* how many times the clock moves, forward or back, in one run of the
\* specification of the periodic call
MaxTickSteps == 3
\* how many files Motion writes in one run of the specification of the trees
MaxTreeSteps == 1
\* how many times the clock moves or Motion reports an event in one run of
\* the specification of the status requests
MaxReadSteps == 2
\* how many times the clock moves or Motion reports an event in one run of
\* the specification of the long event ids
MaxLongSteps == 3

(***************************************************************************)
(* Program constants.                                                      *)
(***************************************************************************)
MOTION_EVENT_DEPTH == 8
MOTION_METRICS_SPAN == 30
\* sizeof(HouseMotionRecentEvents[0].id)
EventIdSize == 32
\* the age, in seconds, after which a file is stable
StableAge == 60
\* the period of the storage check that the code intends
StorageCheckPeriod == 10

(***************************************************************************)
(* Strings.                                                                *)
(***************************************************************************)
Min(a, b) == IF a < b THEN a ELSE b

\* strstr(haystack, needle) != 0: an empty needle is found in every haystack
strstr(haystack, needle) ==
    \E i \in 0..(Len(haystack) - Len(needle)) :
        SubSeq(haystack, i + 1, i + Len(needle)) = needle

\* snprintf (dest, size, "%s", s): at most size-1 characters are kept
snprintf_s(s, size) == SubSeq(s, 1, Min(Len(s), size - 1))

DigitChars == << "0", "1", "2", "3", "4", "5", "6", "7", "8", "9" >>

\* the decimal text of n >= 0, as "%lld" prints it
RECURSIVE Decimal(_)
Decimal(n) ==
    IF n < 10 THEN << DigitChars[n + 1] >>
    ELSE Decimal(n \div 10) \o << DigitChars[(n % 10) + 1] >>

(***************************************************************************)
(* The ids that Motion reports.  X is a fragment of XY: the two events     *)
(* match the same files.  EventOf(n) is the id of the n-th event of a      *)
(* Motion that numbers its events: no such id is a fragment of another.    *)
(***************************************************************************)
IdX == << "x" >>
IdXY == << "x", "y" >>

EventOf(n) == << "e" >> \o Decimal(n) \o << "-" >>

\* the ids of a Motion whose text_event holds the path of the recordings, as
\* the README recommends: one that spans a directory separator and one that
\* is the name of a directory
IdCXY == << "c", "/", "x", "y" >>
IdC == << "c" >>

\* a request parameter: echttp_parameter_get returns null when absent
Absent == [present |-> FALSE, value |-> << >>]
Param(s) == [present |-> TRUE, value |-> s]

(***************************************************************************)
(* The ring of recent events.                                              *)
(***************************************************************************)
\* static storage is zeroed: timestamp 0 and an empty id in every slot
NoEvents == [i \in 0..(MOTION_EVENT_DEPTH - 1) |-> [timestamp |-> 0, id |-> << >>]]

\* a faulty cursor, which never comes back to the first slot
CursorMut(cursor) ==
    IF cursor + 1 >= MOTION_EVENT_DEPTH THEN 1 ELSE cursor + 1

\* the cursor after one more event
NextCursor(cursor) ==
    IF cursor + 1 >= MOTION_EVENT_DEPTH THEN 0 ELSE cursor + 1

\* a faulty store, which writes the slot after the cursor
StoreEventMut(ring, cursor, event, t) ==
    [ring EXCEPT ![(cursor + 1) % MOTION_EVENT_DEPTH] =
        [timestamp |-> t, id |-> snprintf_s(event, EventIdSize)]]

\* the ring after the event is stored at the cursor
StoreEvent(ring, cursor, event, t) ==
    [ring EXCEPT ![cursor] =
        [timestamp |-> t, id |-> snprintf_s(event, EventIdSize)]]

\* housemotion_store_matchevent: the loop runs from the last slot to slot 0
RECURSIVE MatchFrom(_, _, _)
MatchFrom(ring, i, name) ==
    IF i < 0 THEN 0
    ELSE IF strstr(name, ring[i].id) THEN ring[i].timestamp
    ELSE MatchFrom(ring, i - 1, name)

housemotion_store_matchevent(name) ==
    MatchFrom(HouseMotionRecentEvents, MOTION_EVENT_DEPTH - 1, name)

(***************************************************************************)
(* The file system.  A path is the sequence of its components, the first   *)
(* one being the storage root as configured in Motion.                     *)
(***************************************************************************)
RootV == << "/", "v" >>
RootW == << "/", "w" >>
DirC == << "c" >>
DirD == << "d" >>
NameX1 == << "x", "-", "1" >>
NameXY2 == << "x", "y", "-", "2" >>
NameQ == << "q" >>
NameDot == << ".", "x" >>

FileX1 == << RootV, NameX1 >>
FileXY2 == << RootV, DirC, NameXY2 >>
FileQ == << RootV, DirC, DirD, NameQ >>
FileDot == << RootV, NameDot >>

FilePaths == { FileX1, FileXY2, FileQ, FileDot }
DirPaths == { << RootV >>, << RootV, DirC >>, << RootV, DirC, DirD >>, << RootW >> }
Roots == { RootV, RootW }

\* the two orders in which readdir may return the entries of a directory
NameOrder == << NameX1, DirC, NameDot, NameXY2, DirD, NameQ >>
NameOrderReversed == << NameQ, DirD, NameXY2, NameDot, DirC, NameX1 >>

NoFile == [mtime |-> 0, size |-> 0]
Exists(f) == files[f].mtime # 0
Existing == { f \in FilePaths : Exists(f) }

Parent(path) == SubSeq(path, 1, Len(path) - 1)

\* the ancestors of a path, the root included
Ancestors(path) == { SubSeq(path, 1, k) : k \in 1..(Len(path) - 1) }

\* "a/b/c" from << "a", "b", "c" >>
RECURSIVE JoinPath(_)
JoinPath(names) ==
    IF Len(names) = 0 THEN << >>
    ELSE IF Len(names) = 1 THEN names[1]
    ELSE names[1] \o << "/" >> \o JoinPath(Tail(names))

\* char *relative = path + strlen(HouseMotionStorage) + 1
Relative(path) == JoinPath(Tail(path))

\* opendir / readdir: the names in a directory, in one of the two orders;
\* no entry when the directory cannot be opened
readdir(parent, rev) ==
    IF parent \notin dirs THEN << >>
    ELSE LET present(n) == \/ (parent \o << n >>) \in Existing
                           \/ (parent \o << n >>) \in dirs
         IN  SelectSeq(IF rev THEN NameOrderReversed ELSE NameOrder, present)

(***************************************************************************)
(* housemotion_store_status_recurse.  gone: the files that Motion removed  *)
(* after readdir returned their entry, for which stat fails.               *)
(***************************************************************************)
\* a faulty age test: a file is never stable by age alone
StableByAgeMut(mtime, t) == FALSE

StableByAge(mtime, t) == mtime < (t - StableAge)

\* a faulty event test: any matching event makes the file stable
StableByEventMut(mtime, name) == housemotion_store_matchevent(name) > 0

StableByEvent(mtime, name) == mtime <= housemotion_store_matchevent(name)

Stable(mtime, name, t) ==
    IF StableByAge(mtime, t) THEN TRUE ELSE StableByEvent(mtime, name)

\* the length of "[%lld,\"%s\",%lld,%s]"
EntryLength(e) ==
    Len(Decimal(e.mtime)) + Len(e.relative) + Len(Decimal(e.size))
        + (IF e.stable THEN 4 ELSE 5) + 7

\* stat fails for a file that Motion removed after readdir returned its entry
StatFails(path, gone) == path \in gone

\* a faulty separator, which never becomes a comma
NextSepMut(cursor, sep) == sep

\* if (cursor > 0) sep = ",";
NextSep(cursor, sep) == IF cursor > 0 THEN << "," >> ELSE sep

\* the loop over the entries of one directory, from entry k on; sep is the
\* empty string or ","; each entry is kept with the separator written
\* before it
RECURSIVE RecurseLoop(_, _, _, _, _, _, _, _, _)
RecurseLoop(size, path, list, k, cursor, sep, entries, rev, gone) ==
    IF k > Len(list) THEN [cursor |-> cursor, entries |-> entries]
    ELSE
      LET name == list[k]
          full == path \o << name >>
      IN
      IF name[1] = "." THEN
          RecurseLoop(size, path, list, k + 1, cursor, sep, entries, rev, gone)
      ELSE IF full \in FilePaths THEN
          IF StatFails(full, gone) THEN
              RecurseLoop(size, path, list, k + 1, cursor, sep, entries, rev, gone)
          ELSE
            LET e == [mtime |-> files[full].mtime,
                      relative |-> Relative(full),
                      size |-> files[full].size,
                      stable |-> Stable(files[full].mtime, name, now),
                      sep |-> sep]
                after == cursor + Len(sep) + EntryLength(e)
            IN
            IF after >= size THEN [cursor |-> cursor, entries |-> entries]
            ELSE RecurseLoop(size, path, list, k + 1, after,
                             NextSep(after, sep),
                             Append(entries, e), rev, gone)
      ELSE
        LET sub == RecurseLoop(size - cursor, full, readdir(full, rev), 1,
                               0, sep, << >>, rev, gone)
            after == cursor + sub.cursor
        IN
        RecurseLoop(size, path, list, k + 1, after,
                    NextSep(after, sep),
                    entries \o sub.entries, rev, gone)

housemotion_store_status_recurse(size, path, sep, rev, gone) ==
    RecurseLoop(size, path, readdir(path, rev), 1, 0, sep, << >>, rev, gone)

(***************************************************************************)
(* Storage space: what statvfs reports.                                    *)
(***************************************************************************)
StatvfsFailed == [ok |-> FALSE, f_blocks |-> 0, f_bavail |-> 0,
                  f_bsize |-> 0, f_frsize |-> 0]

\* a file system of 20 blocks of 4096 bytes with 3, 4 or 5 blocks available:
\* 85%, 80% and 75% used
StatvfsResults ==
    { [ok |-> TRUE, f_blocks |-> 20, f_bavail |-> a,
       f_bsize |-> 4096, f_frsize |-> 4096] : a \in { 3, 4, 5 } }

\* the division of C truncates toward zero
CDiv(a, b) ==
    IF (a >= 0) = (b > 0) THEN (IF a >= 0 THEN a ELSE -a) \div (IF b > 0 THEN b ELSE -b)
    ELSE -((IF a >= 0 THEN a ELSE -a) \div (IF b > 0 THEN b ELSE -b))

housemotion_store_free(fs) == fs.f_bavail * fs.f_bsize

housemotion_store_total(fs) == fs.f_blocks * fs.f_frsize

\* the division of housemotion_store_used has no defined result when the
\* file system reports no block at all: the processor traps (x86) or gives 0
DividesByZero(fs) == housemotion_store_total(fs) = 0

housemotion_store_used(fs) ==
    IF DividesByZero(fs) THEN 0
    ELSE CDiv((housemotion_store_total(fs) - housemotion_store_free(fs)) * 100,
              housemotion_store_total(fs))

\* the digits of -n for n < 0, the smallest int included
AbsText(n) ==
    LET m == -(n + 1)
    IN  IF m % 10 = 9 THEN Decimal((m \div 10) + 1) \o << "0" >>
        ELSE (IF m < 10 THEN << >> ELSE Decimal(m \div 10))
                \o << DigitChars[(m % 10) + 2] >>

\* the text of "%d"
IntText(n) == IF n < 0 THEN << "-" >> \o AbsText(n) ELSE Decimal(n)

\* (int)((value % 1024*1024*1024) / 1024*1024*100): the operators associate
\* to the left, so this is (value % 1024) * 1048576 * 100 in 64 bits, then
\* cut to a 32 bit int.  (a * 100 * 2^20) mod 2^32 is ((a * 100) mod 2^12) * 2^20.
GBFraction(value) ==
    LET top == ((value % 1024) * 100) % 4096
    IN  IF top >= 2048 THEN (top - 4096) * 1048576 ELSE top * 1048576

\* (int)((value % 1024*1024) / (1024*100)) is ((value % 1024) * 1024) / 102400
MBFraction(value) == ((value % 1024) * 1024) \div (1024 * 100)

housemotion_store_friendly(value) ==
    IF value >= 1024 * 1024 * 1024 THEN
        IntText(value \div (1024 * 1024 * 1024)) \o << "." >>
            \o IntText(GBFraction(value)) \o << "G", "B" >>
    ELSE IF value >= 1024 * 1024 THEN
        IntText(value \div (1024 * 1024)) \o << "." >>
            \o IntText(MBFraction(value)) \o << "M", "B" >>
    ELSE IntText(CDiv(value, 1024)) \o << "K", "B" >>

(***************************************************************************)
(* The metrics ring.                                                       *)
(***************************************************************************)
NoMetrics ==
    [i \in 0..(MOTION_METRICS_SPAN - 1) |->
        [timestamp |-> 0, storage_available |-> 0, memory_available |-> 0]]

\* a faulty index, one slot further
MetricsIndexMut(t) == ((t \div 10) + 1) % MOTION_METRICS_SPAN

\* int index = (now / 10) % MOTION_METRICS_SPAN
MetricsIndex(t) == (t \div 10) % MOTION_METRICS_SPAN

\* the length of {"time":%lld,"memavailable":%lld,"storageavailable":%lld}
MetricsLength(m) ==
    Len(IntText(m.timestamp)) + Len(IntText(m.memory_available))
        + Len(IntText(m.storage_available)) + 45

\* a faulty test, which takes every slot for a sample
UnsetMut(m) == FALSE

\* if (! metrics->timestamp) continue;
Unset(m) == m.timestamp = 0

\* the loop of housemotion_store_status_metrics, entered with index i
RECURSIVE MetricsLoop(_, _, _, _, _, _)
MetricsLoop(size, start, i, cursor, sep, samples) ==
    IF i = start THEN [cursor |-> cursor, samples |-> samples]
    ELSE IF i >= MOTION_METRICS_SPAN /\ start = 0 THEN
        [cursor |-> cursor, samples |-> samples]
    ELSE
      LET j == IF i >= MOTION_METRICS_SPAN THEN 0 ELSE i
          m == HouseMotionMetricsLatest[j]
          after == cursor + Len(sep) + MetricsLength(m)
      IN
      IF Unset(m) THEN
          MetricsLoop(size, start, j + 1, cursor, sep, samples)
      ELSE IF after >= size THEN [cursor |-> cursor, samples |-> samples]
      ELSE MetricsLoop(size, start, j + 1, after, << "," >>, Append(samples, m))

housemotion_store_status_metrics(size) ==
    MetricsLoop(size, MetricsIndex(now), MetricsIndex(now) + 1, 0, << >>, << >>)

(***************************************************************************)
(* housemotion_store_status: the storage part of the status document.      *)
(* The result: the length returned, the recordings, the metrics and the    *)
(* sizes that the text holds, and what statvfs gave (fs).                  *)
(***************************************************************************)
\* a faulty early return, which counts the end of the string
NoStatusMut ==
    [length |-> 1, recordings |-> << >>, metrics |-> << >>,
     fs |-> StatvfsFailed, available |-> << >>, total |-> << >>, error |-> 0]

\* return 0: nothing was added to the document.  error: the HTTP error
\* that the function set for the request, 0 when it set none; neither the
\* early returns nor the overflow label call echttp_error
NoStatus ==
    [length |-> 0, recordings |-> << >>, metrics |-> << >>,
     fs |-> StatvfsFailed, available |-> << >>, total |-> << >>, error |-> 0]

housemotion_store_status(size, fs, rev, gone) ==
    IF HouseMotionStorage = << >> THEN NoStatus
    ELSE IF ~fs.ok THEN NoStatus
    ELSE
      LET c1 == 9 + Len(HouseMotionStorage)
          c2 == c1 + 15 + Len(housemotion_store_friendly(housemotion_store_free(fs)))
          c3 == c2 + 11 + Len(housemotion_store_friendly(housemotion_store_total(fs)))
          c4 == c3 + 11 + Len(IntText(housemotion_store_used(fs)))
          c5 == c4 + 15
          rec == housemotion_store_status_recurse(size - c5, << HouseMotionStorage >>,
                                                  << >>, rev, gone)
          c6 == c5 + rec.cursor + 1
          c7 == c6 + 12
          met == housemotion_store_status_metrics(size - c7)
          c8 == c7 + met.cursor + 1
      IN
      IF c1 >= size \/ c2 >= size \/ c3 >= size \/ c4 >= size \/ c5 >= size
      THEN NoStatus
      ELSE IF c7 >= size THEN NoStatus
      ELSE [length |-> c8, recordings |-> rec.entries, metrics |-> met.samples,
            fs |-> fs,
            available |-> housemotion_store_friendly(housemotion_store_free(fs)),
            total |-> housemotion_store_friendly(housemotion_store_total(fs)),
            error |-> 0]

(***************************************************************************)
(* The cleanup: housemotion_store_oldest and housemotion_store_cleanup.    *)
(***************************************************************************)
\* a faulty comparison, which keeps the newest file
OlderMut(mtime, oldest) == mtime > oldest.modified

Older(mtime, oldest) == mtime < oldest.modified

\* the loop over the entries of one directory, from entry k on
RECURSIVE OldestLoop(_, _, _, _, _, _)
OldestLoop(oldest, parent, list, k, rev, gone) ==
    IF k > Len(list) THEN oldest
    ELSE
      LET name == list[k]
          path == parent \o << name >>
      IN
      IF name[1] = "." THEN OldestLoop(oldest, parent, list, k + 1, rev, gone)
      ELSE IF path \in FilePaths THEN
          IF StatFails(path, gone) THEN
              OldestLoop(oldest, parent, list, k + 1, rev, gone)
          ELSE IF Older(files[path].mtime, oldest) THEN
              OldestLoop([modified |-> files[path].mtime, path |-> path],
                         parent, list, k + 1, rev, gone)
          ELSE OldestLoop(oldest, parent, list, k + 1, rev, gone)
      ELSE
          OldestLoop(OldestLoop(oldest, path, readdir(path, rev), 1, rev, gone),
                     parent, list, k + 1, rev, gone)

housemotion_store_oldest(oldest, parent, rev, gone) ==
    OldestLoop(oldest, parent, readdir(parent, rev), 1, rev, gone)

\* a faulty test of the modification time, which takes any file found
ExpiredMut(oldest, t) == oldest.path # << >>

\* if (oldest.modified < now)
Expired(oldest, t) == oldest.modified < t

\* a faulty unlink, which removes the file even when it reports a failure
UnlinkedMut(selected, unlinkOk) == selected

\* unlink (oldest.path): the file is gone unless unlink fails
Unlinked(selected, unlinkOk) == IF unlinkOk THEN selected ELSE { }

\* a faulty rmdir, which removes a directory with its entries
IsEmptyDirMut(d, remaining) == d \in dirs

\* rmdir succeeds on a directory that exists and has no entry left
IsEmptyDir(d, remaining) ==
    /\ d \in dirs
    /\ \A f \in remaining : d \notin Ancestors(f)
    /\ \A e \in dirs : d \notin Ancestors(e)

\* housemotion_store_cleanup: what is unlinked and what is removed.
\* remaining: the files left when the walk is over; unlinkOk: unlink succeeds
housemotion_store_cleanup(t, rev, gone, unlinkOk) ==
    LET oldest == housemotion_store_oldest([modified |-> t + 60, path |-> << >>],
                                           << HouseMotionStorage >>, rev, gone)
        selected == IF Expired(oldest, t) THEN { oldest.path } ELSE { }
        unlinked == Unlinked(selected, unlinkOk)
        remaining == (Existing \ gone) \ unlinked
        removed == { d \in { Parent(f) : f \in selected } : IsEmptyDir(d, remaining) }
    IN  [selected |-> selected, unlinked |-> unlinked, removed |-> removed]

NoCleanup == [selected |-> { }, unlinked |-> { }, removed |-> { }]

(***************************************************************************)
(* housemotion_store_metrics and housemotion_store_background.             *)
(***************************************************************************)
\* a faulty quota test, which forgets that 0 disables the cleanup
QuotaReachedMut(fs) == housemotion_store_used(fs) >= HouseMotionMaxSpace

QuotaReached(fs) ==
    (HouseMotionMaxSpace > 0) /\ (housemotion_store_used(fs) >= HouseMotionMaxSpace)

\* the storage check is skipped when the last one is less than 10 seconds old
TooEarly(t) == t < LastStorageCheck + StorageCheckPeriod

\* a faulty test, which goes on when statvfs fails
StorageCheckedMut(t, fs) ==
    ~(HouseMotionStorage = << >> \/ TooEarly(t))

\* none of the early returns of housemotion_store_metrics is taken
StorageChecked(t, fs) ==
    ~(HouseMotionStorage = << >> \/ TooEarly(t) \/ ~fs.ok)

\* the result of housemotion_store_metrics: whether the work was done, the
\* ring afterwards and what the cleanup did
housemotion_store_metrics(t, fs, mem, rev, gone, unlinkOk) ==
    IF ~StorageChecked(t, fs) THEN
        [worked |-> FALSE, ring |-> HouseMotionMetricsLatest,
         quota |-> FALSE, cleanup |-> NoCleanup]
    ELSE
        [worked |-> TRUE,
         ring |-> [HouseMotionMetricsLatest EXCEPT ![MetricsIndex(t)] =
                     [timestamp |-> t,
                      storage_available |-> housemotion_store_free(fs),
                      memory_available |-> mem * 1024]],
         quota |-> QuotaReached(fs),
         cleanup |-> IF QuotaReached(fs)
                     THEN housemotion_store_cleanup(t, rev, gone, unlinkOk)
                     ELSE NoCleanup]

(***************************************************************************)
(* The initial states.  The process starts with empty rings, no storage    *)
(* location and no change marker.  So that a full ring is within reach of  *)
(* a short run, a run may also start from the state that the process is in *)
(* after Prefilled numbered events (reported at one second intervals,      *)
(* before StartTime).                                                      *)
(***************************************************************************)
PrefillTime(n) == StartTime - 30 + n

RECURSIVE Prefill(_)
Prefill(n) ==
    IF n = 0 THEN NoEvents
    ELSE StoreEvent(Prefill(n - 1), n - 1, EventOf(n), PrefillTime(n))

PrefillCounts == { 0, MOTION_EVENT_DEPTH - 1 }

\* the recordings that Motion left before the process started, the oldest
\* one in the deepest directory
OldFiles ==
    [f \in FilePaths |->
        [mtime |-> (IF f = FileQ THEN StartTime - 130
                    ELSE IF f = FileX1 THEN StartTime - 120
                    ELSE IF f = FileDot THEN StartTime - 140
                    ELSE StartTime - 110),
         size |-> 7]]

NoFiles == [f \in FilePaths |-> NoFile]

MaxSpaceOptions == { -1, 0, 80 }

\* worked: the call checked the storage; at: when the storage was last
\* checked; previous: when it was checked the time before; failed: when
\* statvfs last failed; kept: the file that the last call which was not
\* skipped selected and could not unlink; keptBefore: the same for the call
\* before that one
NoTick == [worked |-> FALSE, at |-> 0, previous |-> 0, used |-> 0,
           quota |-> FALSE, selected |-> { }, unlinked |-> { },
           removed |-> { }, gone |-> { }, unlinkOk |-> TRUE,
           failed |-> 0, kept |-> { }, keptBefore |-> { }]

InitWith(prefilled, tree, max, storage) ==
    /\ now = StartTime
    /\ HouseMotionMaxSpace = max
    /\ HouseMotionStorage = storage
    /\ HouseMotionChanged = (IF prefilled = 0 THEN 0 ELSE PrefillTime(prefilled))
    /\ HouseMotionRecentEvents = Prefill(prefilled)
    /\ HouseMotionEventCursor = prefilled
    /\ HouseMotionMetricsLatest = NoMetrics
    /\ lastcheck = 0
    /\ LastStorageCheck = 0
    /\ files = tree
    /\ dirs = (IF tree = NoFiles THEN { << r >> : r \in Roots } ELSE DirPaths)
    /\ last = "init"
    /\ out = NoStatus
    /\ checked = 0
    /\ hist = << >>
    /\ tick = NoTick
    /\ moves = 0

(***************************************************************************)
(* The operations.                                                         *)
(***************************************************************************)

\* time passes
Advance(d) ==
    /\ now' = now + d
    /\ moves' = moves + 1
    /\ last' = "advance"
    /\ out' = NoStatus
    /\ UNCHANGED << HouseMotionMaxSpace, HouseMotionStorage, HouseMotionChanged,
                    HouseMotionRecentEvents, HouseMotionEventCursor,
                    HouseMotionMetricsLatest, lastcheck, LastStorageCheck,
                    files, dirs, checked, hist, tick >>

\* Motion writes (creates or extends) a recording
MotionWrite(f) ==
    /\ files' = [files EXCEPT ![f] = [mtime |-> now, size |-> 7]]
    /\ dirs' = dirs \cup Ancestors(f)
    /\ moves' = moves + 1
    /\ last' = "write"
    /\ out' = NoStatus
    /\ UNCHANGED << now, HouseMotionMaxSpace, HouseMotionStorage,
                    HouseMotionChanged, HouseMotionRecentEvents,
                    HouseMotionEventCursor, HouseMotionMetricsLatest,
                    lastcheck, LastStorageCheck, checked, hist, tick >>

\* the change marker after an event; the faulty one takes the time of the
\* slot that the cursor has moved to
ChangedByEventMut(ring, cursor, t) == ring[cursor].timestamp

ChangedByEvent(ring, cursor, t) == t

\* GET /cctv/motion/event, with or without the event and file parameters
housemotion_store_event(event, file) ==
    /\ IF event.present THEN
          /\ HouseMotionRecentEvents' =
                StoreEvent(HouseMotionRecentEvents, HouseMotionEventCursor,
                           event.value, now)
          /\ HouseMotionEventCursor' = NextCursor(HouseMotionEventCursor)
          /\ HouseMotionChanged' =
                ChangedByEvent(HouseMotionRecentEvents',
                               HouseMotionEventCursor', now)
          /\ hist' = Append(hist, [id |-> event.value, time |-> now])
       ELSE
          UNCHANGED << HouseMotionRecentEvents, HouseMotionEventCursor,
                       HouseMotionChanged, hist >>
    /\ last' = (IF event.present THEN "event" ELSE "notify")
    /\ moves' = moves + 1
    /\ out' = NoStatus
    /\ UNCHANGED << now, HouseMotionMaxSpace, HouseMotionStorage,
                    HouseMotionMetricsLatest, lastcheck, LastStorageCheck,
                    files, dirs, checked, tick >>

\* a faulty housemotion_store_record, which takes a file name for an event
RecordMut(stage, event, file) == IF event.present THEN event ELSE file

\* the revision with start and end notifications: housemotion_store_record
\* logs the notification and returns the event parameter, if any
housemotion_store_record(stage, event, file) ==
    IF event.present THEN event ELSE Absent

housemotion_store_complete(event) ==
    /\ HouseMotionRecentEvents' =
          StoreEvent(HouseMotionRecentEvents, HouseMotionEventCursor, event, now)
    /\ HouseMotionEventCursor' = NextCursor(HouseMotionEventCursor)
    /\ HouseMotionChanged' =
          ChangedByEvent(HouseMotionRecentEvents', HouseMotionEventCursor', now)
    /\ hist' = Append(hist, [id |-> event, time |-> now])

\* GET /cctv/motion/event/start
housemotion_store_start(event, file) ==
    /\ housemotion_store_record("START", event, file) \in { event, Absent }
    /\ last' = "start"
    /\ moves' = moves + 1
    /\ out' = NoStatus
    /\ UNCHANGED << now, HouseMotionMaxSpace, HouseMotionStorage,
                    HouseMotionChanged, HouseMotionRecentEvents,
                    HouseMotionEventCursor, HouseMotionMetricsLatest,
                    lastcheck, LastStorageCheck, files, dirs, checked, hist,
                    tick >>

\* GET /cctv/motion/event/end
housemotion_store_end(event, file) ==
    /\ LET completed == housemotion_store_record("END", event, file)
       IN  IF completed.present THEN housemotion_store_complete(completed.value)
           ELSE UNCHANGED << HouseMotionRecentEvents, HouseMotionEventCursor,
                             HouseMotionChanged, hist >>
    /\ last' = (IF event.present THEN "end" ELSE "notify")
    /\ moves' = moves + 1
    /\ out' = NoStatus
    /\ UNCHANGED << now, HouseMotionMaxSpace, HouseMotionStorage,
                    HouseMotionMetricsLatest, lastcheck, LastStorageCheck,
                    files, dirs, checked, tick >>

\* a faulty initialisation, which sets the marker at every read
LazyChangedMut(changed, t) == t

\* if (!HouseMotionChanged) HouseMotionChanged = time(0);
LazyChanged(changed, t) == IF changed = 0 THEN t ELSE changed

\* GET /cctv/check: the change marker in milliseconds
housemotion_store_check ==
    /\ HouseMotionChanged' = LazyChanged(HouseMotionChanged, now)
    /\ checked' = HouseMotionChanged' * 1000
    /\ last' = "check"
    /\ out' = NoStatus
    /\ UNCHANGED << now, HouseMotionMaxSpace, HouseMotionStorage,
                    HouseMotionRecentEvents, HouseMotionEventCursor,
                    HouseMotionMetricsLatest, lastcheck, LastStorageCheck,
                    files, dirs, hist, tick, moves >>

\* a faulty comparison, which takes any directory for the one already set
SamePathMut(existing, directory) == existing # << >>

\* if (existing && (!strcmp(existing, directory))) return;
SamePath(existing, directory) == existing # << >> /\ existing = directory

\* the feed module found the target_dir of Motion
housemotion_store_location(directory) ==
    /\ IF SamePath(HouseMotionStorage, directory) THEN
          /\ last' = "location-same"
          /\ UNCHANGED << HouseMotionStorage, HouseMotionChanged >>
       ELSE
          /\ HouseMotionStorage' = directory
          /\ HouseMotionChanged' = now
          /\ last' = "location"
    /\ moves' = moves + 1
    /\ out' = NoStatus
    /\ UNCHANGED << now, HouseMotionMaxSpace, HouseMotionRecentEvents,
                    HouseMotionEventCursor, HouseMotionMetricsLatest,
                    lastcheck, LastStorageCheck, files, dirs, checked, hist,
                    tick >>

\* the files that Motion may remove while a walk is in progress
Removable == { { } } \cup { { f } : f \in Existing }

\* statvfs fails when the storage directory does not exist
StatvfsOutcomes ==
    IF << HouseMotionStorage >> \in dirs
    THEN StatvfsResults \cup { StatvfsFailed }
    ELSE { StatvfsFailed }

Without(gone) == [f \in FilePaths |-> IF f \in gone THEN NoFile ELSE files[f]]

\* GET /cctv/status, for the storage part; size: what is left of the buffer
StatusSizes == { 130, 1000 }

\* the division by zero trapped: SIGFPE ends the process
Killed ==
    /\ last' = "fatal"
    /\ out' = NoStatus
    /\ UNCHANGED << now, HouseMotionMaxSpace, HouseMotionStorage,
                    HouseMotionChanged, HouseMotionRecentEvents,
                    HouseMotionEventCursor, HouseMotionMetricsLatest,
                    lastcheck, LastStorageCheck, files, dirs, checked, hist,
                    tick, moves >>

\* housemotion_store_status gets as far as the used space, and divides by 0
StatusDividesByZero(size, fs) ==
    /\ HouseMotionStorage # << >>
    /\ fs.ok
    /\ DividesByZero(fs)
    /\ 9 + Len(HouseMotionStorage)
          + 15 + Len(housemotion_store_friendly(housemotion_store_free(fs)))
          + 11 + Len(housemotion_store_friendly(housemotion_store_total(fs)))
          < size

StatusCompleted(size, fs, rev, gone) ==
    /\ out' = housemotion_store_status(size, fs, rev, gone)
    /\ files' = Without(gone)
    /\ last' = "status"
    /\ UNCHANGED << now, HouseMotionMaxSpace, HouseMotionStorage,
                    HouseMotionChanged, HouseMotionRecentEvents,
                    HouseMotionEventCursor, HouseMotionMetricsLatest,
                    lastcheck, LastStorageCheck, dirs, checked, hist, tick,
                    moves >>

Status(size, fs, rev, gone) ==
    IF StatusDividesByZero(size, fs)
    THEN Killed \/ StatusCompleted(size, fs, rev, gone)
    ELSE StatusCompleted(size, fs, rev, gone)

\* a faulty test, which lets a second call of the same second through
AlreadyCheckedMut(t) == t < lastcheck

\* if (now <= lastcheck) return;
AlreadyChecked(t) == t <= lastcheck

\* GET /cctv/status in the later main program: the head of the document
\* holds what housemotion_update returns, which reads the change marker
StatusWithUpdateCompleted(size, fs, rev, gone) ==
    /\ HouseMotionChanged' = LazyChanged(HouseMotionChanged, now)
    /\ checked' = HouseMotionChanged' * 1000
    /\ out' = housemotion_store_status(size, fs, rev, gone)
    /\ files' = Without(gone)
    /\ last' = "status"
    /\ UNCHANGED << now, HouseMotionMaxSpace, HouseMotionStorage,
                    HouseMotionRecentEvents, HouseMotionEventCursor,
                    HouseMotionMetricsLatest, lastcheck, LastStorageCheck,
                    dirs, hist, tick, moves >>

StatusWithUpdate(size, fs, rev, gone) ==
    IF StatusDividesByZero(size, fs)
    THEN Killed \/ StatusWithUpdateCompleted(size, fs, rev, gone)
    ELSE StatusWithUpdateCompleted(size, fs, rev, gone)

\* housemotion_store_metrics gets as far as the quota test, and divides by 0
MetricsDividesByZero(fs) ==
    /\ ~AlreadyChecked(now)
    /\ StorageChecked(now, fs)
    /\ HouseMotionMaxSpace > 0
    /\ DividesByZero(fs)

BackgroundCompleted(fs, mem, rev, gone, unlinkOk) ==
    /\ last' = "background"
    /\ out' = NoStatus
    /\ IF AlreadyChecked(now) THEN
          /\ tick' = [tick EXCEPT !.worked = FALSE, !.quota = FALSE,
                                  !.selected = { }, !.unlinked = { },
                                  !.removed = { }, !.gone = { },
                                  !.unlinkOk = TRUE]
          /\ UNCHANGED << lastcheck, HouseMotionMetricsLatest, files, dirs >>
       ELSE
          LET m == housemotion_store_metrics(now, fs, mem, rev, gone, unlinkOk)
          IN  /\ lastcheck' = now
              /\ HouseMotionMetricsLatest' = m.ring
              /\ files' = Without(gone \cup m.cleanup.unlinked)
              /\ dirs' = dirs \ m.cleanup.removed
              /\ tick' = [worked |-> m.worked,
                          at |-> IF m.worked THEN now ELSE tick.at,
                          previous |-> IF m.worked THEN tick.at ELSE tick.previous,
                          used |-> IF m.worked THEN housemotion_store_used(fs) ELSE 0,
                          quota |-> m.quota,
                          selected |-> m.cleanup.selected,
                          unlinked |-> m.cleanup.unlinked,
                          removed |-> m.cleanup.removed,
                          gone |-> gone,
                          unlinkOk |-> unlinkOk,
                          failed |-> IF /\ HouseMotionStorage # << >>
                                        /\ ~TooEarly(now)
                                        /\ ~fs.ok
                                     THEN now ELSE tick.failed,
                          kept |-> m.cleanup.selected \ m.cleanup.unlinked,
                          keptBefore |-> tick.kept]
    /\ UNCHANGED << now, HouseMotionMaxSpace, HouseMotionStorage,
                    HouseMotionChanged, HouseMotionRecentEvents,
                    HouseMotionEventCursor, LastStorageCheck, checked, hist,
                    moves >>

\* the periodic call, with the time that housemotion_background read
housemotion_store_background(fs, mem, rev, gone, unlinkOk) ==
    IF MetricsDividesByZero(fs)
    THEN Killed \/ BackgroundCompleted(fs, mem, rev, gone, unlinkOk)
    ELSE BackgroundCompleted(fs, mem, rev, gone, unlinkOk)

(***************************************************************************)
(* The scan of the recordings: events, files written and removed by        *)
(* Motion, status requests.  The storage location is the one that the feed *)
(* module found when it read the configuration of Motion.                  *)
(***************************************************************************)
InitScan ==
    \E prefilled \in PrefillCounts, tree \in { NoFiles, OldFiles } :
        /\ (tree = NoFiles) => (prefilled = 0)
        /\ InitWith(prefilled, tree, 0, RootV)

\* what statvfs reports in the runs that do not look at the storage space
StatvfsUsual == CHOOSE fs \in StatvfsResults : fs.f_bavail = 5

NextScan ==
    \/ /\ moves < MaxScanSteps
       /\ \E d \in { 1, 61 } : Advance(d)
    \/ /\ moves < MaxScanSteps
       /\ \E f \in { FileX1, FileXY2 } : MotionWrite(f)
    \/ /\ moves < MaxScanSteps
       /\ \E id \in { IdX, IdXY } : housemotion_store_event(Param(id), Absent)
    \/ \E size \in StatusSizes, rev \in BOOLEAN, gone \in Removable :
          /\ gone \subseteq { FileX1 }
          /\ Status(size, StatvfsUsual, rev, gone)
    \/ Status(1000, StatvfsFailed, FALSE, { })

SpecScan == InitScan /\ [][NextScan]_vars

(***************************************************************************)
(* The claims about the scan.                                              *)
(***************************************************************************)
Slots == 0..(MOTION_EVENT_DEPTH - 1)
Written(i) == HouseMotionRecentEvents[i].timestamp # 0
Reported == { out.recordings[k] : k \in 1..Len(out.recordings) }
Scanned == last = "status" /\ out.length > 0

\* how many entries of the last scan name the file f
EntryCount(f) ==
    Cardinality({ k \in 1..Len(out.recordings) :
                    out.recordings[k].relative = Relative(f) })

\* C1, as claimed: after record(E) at time T (the last event reported), a
\* scan reports stable=true for every file whose path contains E, modified
\* at or before T and within the last 60 seconds
C1_StableAfterRecord ==
    (last = "status" /\ hist # << >>) =>
        \A e \in Reported :
            ( /\ strstr(e.relative, hist[Len(hist)].id)
              /\ e.mtime <= hist[Len(hist)].time
              /\ e.mtime >= now - StableAge ) => e.stable

\* C5: a file modified 61 seconds or more before the scan is reported stable,
\* whatever the ring of events holds
C5_OldIsStable ==
    last = "status" =>
        \A e \in Reported : (e.mtime + StableAge + 1 <= now) => e.stable

\* C5 happens: an old file is reported while the ring is full and one of its
\* events is in the name of the file
C5_Witness ==
    /\ last = "status"
    /\ \A i \in Slots : Written(i)
    /\ \E e \in Reported :
          /\ e.mtime + StableAge + 1 <= now
          /\ e.stable
          /\ \E i \in Slots : strstr(e.relative, HouseMotionRecentEvents[i].id)

\* C6: a file modified within the last 60 seconds is reported unstable when
\* no event of the ring is in its path, and when every event of the ring
\* that is in its path was recorded before the file was modified
C6_FreshIsUnstable ==
    last = "status" =>
        \A e \in Reported :
            ( /\ e.mtime >= now - StableAge
              /\ \A i \in Slots :
                    (Written(i) /\ strstr(e.relative, HouseMotionRecentEvents[i].id))
                        => HouseMotionRecentEvents[i].timestamp < e.mtime )
            => ~e.stable

\* C6 happens: a fresh file is reported unstable though an event recorded
\* earlier is in its path
C6_Witness ==
    /\ last = "status"
    /\ \E e \in Reported :
          /\ e.mtime >= now - StableAge
          /\ ~e.stable
          /\ \E i \in Slots :
                /\ Written(i)
                /\ strstr(e.relative, HouseMotionRecentEvents[i].id)
                /\ HouseMotionRecentEvents[i].timestamp < e.mtime

\* C7, as claimed: a scan emits exactly one entry for each regular file under
\* the storage root, the files that Motion removed during the scan excepted,
\* and no other entry
C7_OneEntryPerFile ==
    Scanned =>
        /\ \A f \in Existing : EntryCount(f) = 1
        /\ Len(out.recordings) = Cardinality(Existing)

\* C16, as claimed: a regular file whose name begins with a dot appears in
\* the scan like any other regular file: a scan that reports every other
\* regular file of the storage reports it too
C16_DotFilesAreReported ==
    (/\ Scanned
     /\ FileDot \in Existing
     /\ \A f \in Existing \ { FileDot } : EntryCount(f) = 1) =>
        EntryCount(FileDot) = 1

(***************************************************************************)
(* The ring of events alone: a Motion that numbers its events, and that    *)
(* may report its first event again.                                       *)
(***************************************************************************)
InitRing == InitWith(0, NoFiles, 0, RootV)

NextRing ==
    \/ /\ now < StartTime + MaxRingTime
       /\ Advance(1)
    \/ /\ Len(hist) < MaxRingEvents
       /\ \E id \in { EventOf(Len(hist) + 1), EventOf(1) } :
             housemotion_store_event(Param(id), Absent)

SpecRing == InitRing /\ [][NextRing]_vars

\* no id of the events reported so far is a fragment of another
Unrelated ==
    \A j, k \in 1..Len(hist) : (j # k) => ~strstr(hist[j].id, hist[k].id)

\* the names that contain the id of the first event and of no other event
ProbeNames ==
    { n \in { EventOf(1) \o << "a" >>, << "z", "/" >> \o EventOf(1),
              EventOf(1) }
        : \A k \in 2..Len(hist) : ~strstr(n, hist[k].id) }

\* C8: the ring never holds more than 8 events, and after 9 events (or
\* more) with unrelated ids the time of the first one is no longer returned
\* for a name that contains the first id only
C8_FirstEventForgotten ==
    /\ DOMAIN HouseMotionRecentEvents = Slots
    /\ HouseMotionEventCursor \in Slots
    /\ Cardinality({ i \in Slots : Written(i) }) <= MOTION_EVENT_DEPTH
    /\ (Len(hist) >= MOTION_EVENT_DEPTH + 1 /\ Unrelated) =>
          \A n \in ProbeNames :
              housemotion_store_matchevent(n) # hist[1].time

\* C8 happens: 9 unrelated events have been reported, the ring is full and
\* no event matches a name made of the first id
C8_Witness ==
    /\ Len(hist) = MOTION_EVENT_DEPTH + 1
    /\ Unrelated
    /\ \A i \in Slots : Written(i)
    /\ HouseMotionRecentEvents[0].id = EventOf(MOTION_EVENT_DEPTH + 1)
    /\ ProbeNames # { }
    /\ housemotion_store_matchevent(EventOf(1) \o << "a" >>) = 0

\* the scan that the specification describes: from the slot written last
\* back to the slot written first, the slots never written left out
RECURSIVE MatchBack(_, _, _, _)
MatchBack(ring, cursor, k, name) ==
    IF k > MOTION_EVENT_DEPTH THEN 0
    ELSE LET i == (cursor + MOTION_EVENT_DEPTH - k) % MOTION_EVENT_DEPTH
         IN  IF ring[i].timestamp # 0 /\ strstr(name, ring[i].id)
             THEN ring[i].timestamp
             ELSE MatchBack(ring, cursor, k + 1, name)

MatchRecent(name) ==
    MatchBack(HouseMotionRecentEvents, HouseMotionEventCursor, 1, name)

\* names that contain the id of the first event
FirstEventNames ==
    { EventOf(1) \o << "a" >>, << "z", "/" >> \o EventOf(1), EventOf(1) }

\* C18, as claimed: once every slot is written, the time returned for a name
\* is the time of the most recently written event whose id is part of the
\* name, wherever the cursor is
C18_MostRecentMatchFirst ==
    (\A i \in Slots : Written(i)) =>
        \A n \in FirstEventNames :
            housemotion_store_matchevent(n) = MatchRecent(n)

\* C19, as claimed: a slot never written matches no name, so that no time
\* is returned for a name exactly when no recorded id is part of the name
C19_UnwrittenNeverMatches ==
    \A n \in FirstEventNames \cup { EventOf(2) \o << "a" >> } :
        (housemotion_store_matchevent(n) = 0) <=>
            ~ \E i \in Slots :
                  Written(i) /\ strstr(n, HouseMotionRecentEvents[i].id)

\* the ring holds the 8 events reported last, the oldest one at the cursor
HoldsTheLastEvents ==
    /\ HouseMotionEventCursor \in Slots
    /\ (Len(hist) >= MOTION_EVENT_DEPTH) =>
          \A k \in Slots :
              LET slot == HouseMotionRecentEvents[
                              (HouseMotionEventCursor + k) % MOTION_EVENT_DEPTH]
                  e == hist[Len(hist) - MOTION_EVENT_DEPTH + 1 + k]
              IN  slot.id = e.id /\ slot.timestamp = e.time

\* C20: an event is written at the cursor, the cursor moves on modulo 8 and
\* the change marker becomes the current time; the cursor stays within
\* 0..7 and after 8 events or more the ring holds exactly the 8 events
\* reported last, the cursor on the oldest of them
C20_RecordAtCursor ==
    [][ /\ (last' = "event") =>
              /\ HouseMotionRecentEvents' =
                    [HouseMotionRecentEvents EXCEPT ![HouseMotionEventCursor] =
                        [timestamp |-> now, id |-> hist'[Len(hist')].id]]
              /\ HouseMotionEventCursor' =
                    (HouseMotionEventCursor + 1) % MOTION_EVENT_DEPTH
              /\ HouseMotionChanged' = now
        /\ HoldsTheLastEvents
        /\ HoldsTheLastEvents' ]_vars

\* C20 happens: a 10th event was just reported, it took the place of the
\* second one, and the cursor is on the third event, the oldest left
C20_Witness ==
    /\ last = "event"
    /\ Len(hist) = MOTION_EVENT_DEPTH + 2
    /\ HouseMotionEventCursor = 2
    /\ HouseMotionRecentEvents[1].id = hist[MOTION_EVENT_DEPTH + 2].id
    /\ HouseMotionRecentEvents[2].id = hist[3].id
    /\ HouseMotionChanged = now

(***************************************************************************)
(* The change marker: every operation of the module, from the start of the *)
(* process (no storage location yet) or from a ring that is about to wrap. *)
(***************************************************************************)
InitMarker ==
    \E prefilled \in PrefillCounts : InitWith(prefilled, OldFiles, 80, << >>)

NextMarker ==
    \/ /\ moves < MaxMarkerSteps
       /\ \E d \in { 1, 10 } : Advance(d)
    \/ /\ moves < MaxMarkerSteps
       /\ \E event \in { Param(IdX), Absent } :
             housemotion_store_event(event, Param(NameX1))
    \/ housemotion_store_check
    \/ /\ moves < MaxMarkerSteps
       /\ \E directory \in Roots : housemotion_store_location(directory)
    \/ \E fs \in StatvfsOutcomes \cap { StatvfsUsual, StatvfsFailed } :
          Status(1000, fs, FALSE, { })
    \/ \E fs \in StatvfsOutcomes \cap { StatvfsUsual, StatvfsFailed } :
          housemotion_store_background(fs, 2, FALSE, { }, TRUE)

SpecMarker == InitMarker /\ [][NextMarker]_vars

\* C9: what housemotion_store_check returns never decreases, whatever
\* happens between two calls
C9_MarkerNeverDecreases == [][checked' >= checked]_vars

\* C9 happens: a read follows an event that was reported after an earlier
\* read, at a later time
C9_Witness ==
    /\ last = "check"
    /\ hist # << >>
    /\ now > StartTime
    /\ checked = hist[Len(hist)].time * 1000
    /\ checked > StartTime * 1000

\* C10, as claimed: a read that follows an event or a change of the storage
\* location returns more than the read before
C10_MarkerChanges ==
    [][ ( /\ last \in { "event", "location" }
          /\ last' = "check"
          /\ checked # 0 ) => checked' > checked ]_vars

\* C33: setting the storage location to another path replaces it and sets
\* the change marker to the current time; setting it to the path it has
\* leaves the location and the marker as they are; the ring of events and
\* the metrics ring are not changed in either case
C33_LocationSetOnce ==
    [][ \A directory \in Roots :
          housemotion_store_location(directory) =>
              /\ IF directory = HouseMotionStorage
                 THEN UNCHANGED << HouseMotionStorage, HouseMotionChanged >>
                 ELSE /\ HouseMotionStorage' = directory
                      /\ HouseMotionChanged' = now
              /\ UNCHANGED << HouseMotionRecentEvents, HouseMotionEventCursor,
                              HouseMotionMetricsLatest >> ]_vars

\* C33 happens: the location was set, and set again to the same path a
\* second or more later: the marker is still the time of the first call
C33_Witness ==
    /\ last = "location-same"
    /\ HouseMotionStorage # << >>
    /\ hist = << >>
    /\ checked = 0
    /\ HouseMotionChanged >= StartTime
    /\ HouseMotionChanged < now

(***************************************************************************)
(* The storage check: the periodic call, the clock and the files that      *)
(* Motion writes, for each value of the -motion-clean option.              *)
(***************************************************************************)
\* the periodic call is about to walk the tree: only then does it matter in
\* which order readdir lists a directory, which file Motion removes in the
\* meantime and whether unlink succeeds
WalkAhead(fs) ==
    /\ now > lastcheck
    /\ StorageChecked(now, fs)
    /\ QuotaReached(fs)

InitQuota ==
    \E tree \in { NoFiles, OldFiles }, max \in MaxSpaceOptions :
        InitWith(0, tree, max, RootV)

\* what statvfs reports in the runs of the storage check: the used space
\* below the limit of 80, at the limit, or no report at all
StatvfsQuota ==
    StatvfsOutcomes \cap ({ fs \in StatvfsResults : fs.f_bavail \in { 4, 5 } }
                             \cup { StatvfsFailed })

NextQuota ==
    \/ /\ moves < MaxQuotaSteps
       /\ \E d \in { 1, 10 } : Advance(d)
    \/ /\ moves < MaxQuotaSteps
       /\ \E f \in { FileX1, FileQ } : MotionWrite(f)
    \/ \E fs \in StatvfsQuota :
          housemotion_store_background(fs, 2, FALSE, { }, TRUE)
    \/ \E fs \in StatvfsQuota :
          /\ WalkAhead(fs)
          /\ \E rev \in BOOLEAN, gone \in Removable, unlinkOk \in BOOLEAN :
                /\ gone \subseteq { FileQ }
                /\ housemotion_store_background(fs, 2, rev, gone, unlinkOk)

SpecQuota == InitQuota /\ [][NextQuota]_vars

\* the files that the walk of the cleanup can see: no component of the path
\* below the root begins with a dot, and Motion did not remove the file
Hidden(f) == \E k \in 2..Len(f) : f[k][1] = "."
Visible(gone) == { f \in Existing \ gone : ~Hidden(f) }

\* the step is a periodic call that checked the storage and found the used
\* space at or above the limit
QualifyingTick ==
    /\ last' = "background"
    /\ tick'.worked
    /\ HouseMotionMaxSpace > 0
    /\ tick'.used >= HouseMotionMaxSpace

C3_NoCleanupWithoutLimit ==
    [][ (last' = "background" /\ HouseMotionMaxSpace <= 0) =>
          /\ Existing' = Existing \ tick'.gone
          /\ \A f \in Existing' : files'[f] = files[f]
          /\ dirs' = dirs ]_vars

\* C3 happens: the limit is 0, a periodic call found 80% of the space used
\* and old files are there
C3_Witness ==
    /\ last = "background"
    /\ HouseMotionMaxSpace = 0
    /\ tick.worked
    /\ tick.used >= 80
    /\ tick.gone = { }
    /\ Existing = FilePaths
    /\ \A f \in FilePaths : files[f].mtime < now

\* C4, as claimed: at least 10 seconds pass between two periodic calls that
\* check the storage
C4_CheckEveryTenSeconds ==
    [][ (last' = "background" /\ tick'.worked /\ tick.at # 0) =>
          now' >= tick.at + StorageCheckPeriod ]_vars

\* the files that the step deleted, those that Motion removed left out
Evicted == (Existing \ tick'.gone) \ Existing'

\* C23: a periodic call deletes a file only when the file was modified
\* before the time of the call; when no file was, the call deletes no file
\* and removes no directory
C23_OnlyOlderFiles ==
    [][ (last' = "background") =>
          /\ \A f \in Evicted : files[f].mtime < now
          /\ \A f \in tick'.selected : files[f].mtime < now
          /\ (\A f \in Existing : files[f].mtime >= now) =>
                (Evicted = { } /\ dirs' = dirs /\ tick'.selected = { }) ]_vars

\* C23 happens: the used space is at the limit and the only files are the
\* ones that Motion wrote in the second of the call: nothing is selected
C23_Witness ==
    /\ last = "background"
    /\ tick.worked
    /\ tick.quota
    /\ tick.at = now
    /\ tick.selected = { }
    /\ Existing # { }
    /\ \A f \in Existing : files[f].mtime = now
    /\ dirs = { << r >> : r \in Roots } \cup UNION { Ancestors(f) : f \in Existing }

\* C24: when a periodic call deletes a file, the directory of the file is
\* removed exactly when nothing is left in it; no other directory is
\* removed and no other file is deleted or changed
C24_OnlyTheEmptyParent ==
    [][ (last' = "background" /\ tick'.unlinked # { }) =>
          \E f \in tick'.unlinked :
              LET d == Parent(f)
                  entries == { g \in Existing' : Parent(g) = d }
                                \cup { e \in dirs \ { d } : Parent(e) = d }
              IN  /\ Evicted = { f }
                  /\ \A g \in Existing' : files'[g] = files[g]
                  /\ dirs' = (IF entries = { } THEN dirs \ { d } ELSE dirs) ]_vars

\* C24 happens: an earlier call deleted c/d/q and removed c/d, then a call
\* deleted x-1 and left its directory, which still holds c, in place
C24_Witness ==
    /\ last = "background"
    /\ tick.unlinked = { FileX1 }
    /\ tick.removed = { }
    /\ << RootV, DirC, DirD >> \notin dirs
    /\ << RootV, DirC >> \in dirs
    /\ ~Exists(FileQ)
    /\ Exists(FileXY2)

\* C25, as claimed: the storage directory exists after every periodic call
C25_StorageRootStays == << HouseMotionStorage >> \in dirs

\* C26, as claimed: a file that a periodic call deletes is one that a scan
\* made at the time of the call would report stable
C26_OnlyStableFiles ==
    [][ (last' = "background") =>
          \A f \in Evicted : Stable(files[f].mtime, f[Len(f)], now) ]_vars

\* C27: a periodic call in which statvfs fails writes no sample, deletes no
\* file, removes no directory and leaves the ring of events and the change
\* marker alone; the call of a later second does the work again
C27_FailedQuerySkipsTheWork ==
    [][ /\ (last' = "background" /\ tick'.failed = now) =>
              /\ UNCHANGED << HouseMotionMetricsLatest, HouseMotionRecentEvents,
                              HouseMotionEventCursor, HouseMotionChanged, dirs >>
              /\ Evicted = { }
              /\ \A g \in Existing' : files'[g] = files[g]
              /\ ~tick'.worked /\ ~tick'.quota /\ tick'.selected = { }
        /\ ( /\ last' = "background"
             /\ tick.failed # 0 /\ tick.failed = lastcheck
             /\ now > lastcheck
             /\ tick'.failed # now ) =>
              /\ tick'.worked
              /\ HouseMotionMetricsLatest'[MetricsIndex(now)].timestamp = now ]_vars

\* C27 happens: statvfs failed in the call of one second, and the call of
\* the next second took a sample and found the used space at the limit
C27_Witness ==
    /\ last = "background"
    /\ tick.failed = StartTime
    /\ tick.worked
    /\ tick.at = StartTime + 1
    /\ tick.previous = 0
    /\ tick.quota
    /\ HouseMotionMetricsLatest[MetricsIndex(tick.at)].timestamp = tick.at

\* C28: a periodic call in which unlink fails completes, deletes no file
\* and removes no directory; the next call that finds the used space at the
\* limit selects the same file again, when that file is still there, was
\* not written since and is the only one of its age
C28_FailedUnlinkIsRetried ==
    [][ /\ (last' = "background" /\ tick'.selected # { } /\ ~tick'.unlinkOk) =>
              /\ Evicted = { }
              /\ dirs' = dirs
              /\ lastcheck' = now
              /\ tick'.worked
              /\ tick'.kept = tick'.selected
        /\ ( /\ QualifyingTick
             /\ tick.kept # { }
             /\ \A f \in tick.kept :
                   /\ Exists(f)
                   /\ f \notin tick'.gone
                   /\ files[f].mtime < tick.at
                   /\ \A g \in Existing \ { f } :
                         files[g].mtime # files[f].mtime ) =>
              tick'.selected = tick.kept ]_vars

\* C28 happens: unlink failed on c/d/q in one call and fails on it again
\* in the call of the next second, the other files still in place
C28_Witness ==
    /\ last = "background"
    /\ tick.keptBefore = { FileQ }
    /\ tick.selected = { FileQ }
    /\ ~tick.unlinkOk
    /\ tick.kept = { FileQ }
    /\ tick.at > tick.previous /\ tick.previous >= StartTime
    /\ Exists(FileQ) /\ Exists(FileX1) /\ Exists(FileXY2)

(***************************************************************************)
(* The metrics ring: the periodic call takes the samples, the status       *)
(* request renders them.  A run starts with an empty ring, or with the     *)
(* ring of a process that took a sample every 10 seconds for 5 minutes.    *)
(***************************************************************************)
SampledBefore ==
    [i \in 0..(MOTION_METRICS_SPAN - 1) |->
        LET k == CHOOSE k \in 1..MOTION_METRICS_SPAN :
                    MetricsIndex(StartTime - 10 * k) = i
        IN  [timestamp |-> StartTime - 10 * k,
             storage_available |-> housemotion_store_free(StatvfsUsual),
             memory_available |-> 2 * 1024]]

InitMetrics ==
    /\ now = StartTime
    /\ HouseMotionMaxSpace = 0
    /\ HouseMotionStorage = RootV
    /\ HouseMotionChanged = StartTime - 10 * MOTION_METRICS_SPAN
    /\ HouseMotionRecentEvents = NoEvents
    /\ HouseMotionEventCursor = 0
    /\ HouseMotionMetricsLatest \in { NoMetrics, SampledBefore }
    /\ lastcheck = (IF HouseMotionMetricsLatest = NoMetrics THEN 0
                    ELSE StartTime - 10)
    /\ LastStorageCheck = 0
    /\ files = NoFiles
    /\ dirs = { << r >> : r \in Roots }
    /\ last = "init"
    /\ out = NoStatus
    /\ checked = 0
    /\ hist = << >>
    /\ tick = NoTick
    /\ moves = 0

\* what is left of the buffer for the storage part: room for one sample, or
\* for all of them
MetricsSizes == { 200, 2000 }

NextMetrics ==
    \/ /\ moves < MaxMetricsSteps
       /\ \E d \in { 10, 290 } : Advance(d)
    \/ \E fs \in { StatvfsUsual, StatvfsFailed } :
          housemotion_store_background(fs, 2, FALSE, { }, TRUE)
    \/ \E size \in MetricsSizes : Status(size, StatvfsUsual, FALSE, { })

SpecMetrics == InitMetrics /\ [][NextMetrics]_vars

MetricsSlots == 0..(MOTION_METRICS_SPAN - 1)
Sampled(i) == HouseMotionMetricsLatest[i].timestamp # 0

\* C11: a status request renders at most 30 samples, and each of them is
\* the sample that the periodic call wrote in a slot of the ring: no slot
\* that was never written is rendered
C11_OnlyWrittenSamples ==
    last = "status" =>
        /\ Len(out.metrics) <= MOTION_METRICS_SPAN
        /\ \A k \in 1..Len(out.metrics) :
              /\ out.metrics[k].timestamp >= StartTime - 10 * MOTION_METRICS_SPAN
              /\ \E i \in MetricsSlots :
                    Sampled(i) /\ out.metrics[k] = HouseMotionMetricsLatest[i]

\* C11 happens: the ring holds two samples or more and slots never written,
\* and the request rendered samples
C11_Witness ==
    /\ last = "status"
    /\ Cardinality({ i \in MetricsSlots : Sampled(i) }) >= 2
    /\ \E i \in MetricsSlots : ~Sampled(i)
    /\ Len(out.metrics) >= 2

\* C12, as claimed: the samples that a status request renders are in the
\* order of their times
C12_ChronologicalOrder ==
    last = "status" =>
        \A j, k \in 1..Len(out.metrics) :
            (j < k) => out.metrics[j].timestamp < out.metrics[k].timestamp

\* every sample is in the slot of its time
InItsSlot ==
    \A i \in MetricsSlots :
        Sampled(i) =>
            (HouseMotionMetricsLatest[i].timestamp \div 10) % MOTION_METRICS_SPAN = i

\* C29: a periodic call that takes a sample at time t writes the slot
\* floor(t / 10) mod 30, whatever the slot held, and leaves the 29 other
\* slots as they are; every sample of the ring is in the slot of its time
C29_OneSlotPerSample ==
    [][ /\ (last' = "background" /\ tick'.worked) =>
              LET index == (now \div 10) % MOTION_METRICS_SPAN
              IN  /\ HouseMotionMetricsLatest'[index].timestamp = now
                  /\ \A i \in MetricsSlots \ { index } :
                        HouseMotionMetricsLatest'[i] = HouseMotionMetricsLatest[i]
        /\ (last' = "background" /\ ~tick'.worked) =>
              UNCHANGED HouseMotionMetricsLatest
        /\ InItsSlot
        /\ InItsSlot' ]_vars

\* C29 happens: in a ring of 30 samples, a periodic call replaced the
\* sample taken 5 minutes earlier in the same slot
C29_Witness ==
    /\ last = "background"
    /\ tick.worked
    /\ tick.at = now
    /\ \A i \in MetricsSlots : Sampled(i)
    /\ HouseMotionMetricsLatest[MetricsIndex(now)].timestamp = now
    /\ now >= StartTime + 10
    /\ \E i \in MetricsSlots :
          HouseMotionMetricsLatest[i].timestamp
              = now - 10 * (MOTION_METRICS_SPAN - 1)

\* C30, as claimed: a status request that has room for all the samples
\* returns the sample of every written slot, the slot of the current time
\* included, so 30 samples from a ring of 30
C30_EverySampleRendered ==
    (last = "status" /\ out.length >= 200) =>
        /\ \A i \in MetricsSlots :
              Sampled(i) =>
                  \E k \in 1..Len(out.metrics) :
                      out.metrics[k] = HouseMotionMetricsLatest[i]
        /\ (\A i \in MetricsSlots : Sampled(i)) =>
              Len(out.metrics) = MOTION_METRICS_SPAN

\* C31, as claimed: no sample that a status request renders is older than
\* the window of 5 minutes, also when periodic calls took no sample
C31_NoSampleOlderThanWindow ==
    last = "status" =>
        \A k \in 1..Len(out.metrics) :
            now - out.metrics[k].timestamp <= 10 * MOTION_METRICS_SPAN

(***************************************************************************)
(* The status request before any storage location is known.                *)
(***************************************************************************)
\* C13: while no storage location is set, a status request completes and
\* adds nothing to the document: no field, no recording, no sample
C13_NoStorageNoFields ==
    (last = "status" /\ HouseMotionStorage = << >>) =>
        /\ out.length = 0
        /\ out.recordings = << >>
        /\ out.metrics = << >>

\* C13 happens: a status request was served after an event and a periodic
\* call, the storage location still unset
C13_Witness ==
    /\ last = "status"
    /\ HouseMotionStorage = << >>
    /\ hist # << >>
    /\ lastcheck >= StartTime
    /\ out.length = 0

\* housemotion_status: the document, as the sequence of its parts: the
\* head with the host and the time, what housemotion_feed_status wrote, a
\* comma, what housemotion_store_status wrote (nothing when it returned 0)
\* and the two closing braces
housemotion_status(store) ==
    << "{head", "feed", "," >>
        \o (IF store.length > 0 THEN << "store" >> ELSE << >>)
        \o << "}}" >>

\* C36, as claimed: in the status document no comma comes just before the
\* closing braces, whatever the storage part is
C36_NoDanglingComma ==
    last = "status" =>
        LET document == housemotion_status(out)
        IN  \A k \in 1..(Len(document) - 1) :
                ~(document[k] = "," /\ document[k + 1] = "}}")

(***************************************************************************)
(* The storage space: status requests and periodic calls for file systems  *)
(* of every size, from no block at all to nearly 2 GB, in blocks of 512    *)
(* and of 4096 bytes, nearly full.                                         *)
(***************************************************************************)
\* a pseudo file system reports 0 blocks
StatvfsZero == [ok |-> TRUE, f_blocks |-> 0, f_bavail |-> 0,
                f_bsize |-> 4096, f_frsize |-> 4096]

SizedResults ==
    { [ok |-> TRUE, f_blocks |-> n * (4096 \div bs),
       f_bavail |-> (n * (4096 \div bs)) - k,
       f_bsize |-> bs, f_frsize |-> bs] :
         n \in { 100, 300, 3000, 300000, 500000 }, bs \in { 512, 4096 },
         k \in 0..9 }

InitStorage ==
    \E max \in { 0, 80 } : InitWith(0, NoFiles, max, RootV)

\* nothing happens once the process is gone
NextStorage ==
    \/ /\ last # "fatal"
       /\ \E fs \in SizedResults \cup { StatvfsZero } :
             Status(1000, fs, FALSE, { })
    \/ /\ last # "fatal"
       /\ \E fs \in { StatvfsUsual, StatvfsZero } :
             housemotion_store_background(fs, 2, FALSE, { }, TRUE)

SpecStorage == InitStorage /\ [][NextStorage]_vars

\* C14, as claimed: no status request and no periodic call ends the process
C14_NothingIsFatal == last # "fatal"

\* the size that C17 describes: the unit, the whole units and one decimal
UnitOf(v) ==
    IF v >= 1024 * 1024 * 1024 THEN 1024 * 1024 * 1024
    ELSE IF v >= 1024 * 1024 THEN 1024 * 1024
    ELSE 1024

UnitName(v) ==
    IF v >= 1024 * 1024 * 1024 THEN << "G", "B" >>
    ELSE IF v >= 1024 * 1024 THEN << "M", "B" >>
    ELSE << "K", "B" >>

\* the smallest r with 10 * r >= d * unit
TenthsFrom(d, unit) ==
    d * (unit \div 10) + ((d * (unit % 10) + 9) \div 10)

\* floor(10 * (v mod unit) / unit)
DecimalDigit(v) ==
    CHOOSE d \in 0..9 :
        /\ TenthsFrom(d, UnitOf(v)) <= v % UnitOf(v)
        /\ (d < 9) => (v % UnitOf(v) < TenthsFrom(d + 1, UnitOf(v)))

ReadableSize(v) ==
    Decimal(v \div UnitOf(v)) \o << "." >> \o Decimal(DecimalDigit(v))
        \o UnitName(v)

\* C17, as claimed: the sizes of a status document are the whole units, one
\* decimal and the unit, for the space available and for the total space
C17_ReadableSizes ==
    (last = "status" /\ out.length > 0) =>
        /\ out.available = ReadableSize(housemotion_store_free(out.fs))
        /\ out.total = ReadableSize(housemotion_store_total(out.fs))

(***************************************************************************)
(* The notifications of Motion: start, end and plain ones, with an event   *)
(* id, with a file name, with both or with none.                           *)
(***************************************************************************)
InitNotify ==
    \E prefilled \in PrefillCounts : InitWith(prefilled, NoFiles, 0, RootV)

NextNotify ==
    \/ /\ moves < MaxNotifySteps
       /\ Advance(1)
    \/ /\ moves < MaxNotifySteps
       /\ \E event \in { Param(IdX), Absent }, file \in { Param(NameX1), Absent } :
             housemotion_store_event(event, file)
    \/ /\ moves < MaxNotifySteps
       /\ \E event \in { Param(IdX), Absent }, file \in { Param(NameX1), Absent } :
             housemotion_store_start(event, file)
    \/ /\ moves < MaxNotifySteps
       /\ \E event \in { Param(IdX), Absent }, file \in { Param(NameX1), Absent } :
             housemotion_store_end(event, file)

SpecNotify == InitNotify /\ [][NextNotify]_vars

\* C15: a start notification, a notification with a file name only and a
\* notification without parameter leave the ring of events, its cursor and
\* the change marker as they are; only an end or plain notification with an
\* event id changes them
C15_OnlyEventsAreRecorded ==
    [][ /\ (last' \in { "start", "notify" }) =>
              UNCHANGED << HouseMotionRecentEvents, HouseMotionEventCursor,
                           HouseMotionChanged >>
        /\ (HouseMotionRecentEvents' # HouseMotionRecentEvents) =>
              (last' \in { "event", "end" }) ]_vars

\* C15 happens: a start notification came a second after an event was
\* recorded, and the change marker is still the time of that event
C15_Witness ==
    /\ last = "start"
    /\ hist # << >>
    /\ HouseMotionChanged = hist[Len(hist)].time
    /\ now > HouseMotionChanged
    /\ HouseMotionRecentEvents[0].id = hist[Len(hist)].id

(***************************************************************************)
(* Events named after the path of the recordings.  The ring is one event   *)
(* short of full when the run starts.                                      *)
(***************************************************************************)
InitCorrelate == InitWith(MOTION_EVENT_DEPTH - 1, OldFiles, 0, RootV)

NextCorrelate ==
    \/ /\ moves < MaxCorrelateSteps
       /\ \E d \in { 1, 61 } : Advance(d)
    \/ /\ moves < MaxCorrelateSteps
       /\ \E f \in { FileXY2, FileQ } : MotionWrite(f)
    \/ /\ moves < MaxCorrelateSteps
       /\ \E id \in { IdCXY, IdC } : housemotion_store_event(Param(id), Absent)
    \/ Status(1000, StatvfsUsual, FALSE, { })

SpecCorrelate == InitCorrelate /\ [][NextCorrelate]_vars

\* C21, as claimed: the events are looked for in the relative path of the
\* file, directories included: with a full ring, a file is reported stable
\* when an event of the ring is part of its relative path and every such
\* event was recorded at or after the modification of the file
C21_PathCorrelates ==
    (last = "status" /\ \A i \in Slots : Written(i)) =>
        \A e \in Reported :
            ( /\ \E i \in Slots : strstr(e.relative, HouseMotionRecentEvents[i].id)
              /\ \A i \in Slots :
                    strstr(e.relative, HouseMotionRecentEvents[i].id) =>
                        e.mtime <= HouseMotionRecentEvents[i].timestamp )
            => e.stable

(***************************************************************************)
(* The eviction in the long run: the storage stays at the limit of 80, the *)
(* main loop makes the periodic call at least once for every second of the *)
(* clock, and Motion writes nothing.  unlink may fail at any call.         *)
(***************************************************************************)
\* the recordings of OldFiles without the hidden one
OldVisibleFiles == [OldFiles EXCEPT ![FileDot] = NoFile]

StatvfsAtLimit == CHOOSE fs \in StatvfsResults : fs.f_bavail = 4

InitEvict ==
    \E tree \in { OldFiles, OldVisibleFiles } : InitWith(0, tree, 80, RootV)

\* the clock moves on once the periodic call was made for the current second
NextEvict ==
    \/ /\ now < StartTime + MaxEvictTime
       /\ lastcheck = now
       /\ Advance(1)
    \/ \E rev \in BOOLEAN, unlinkOk \in BOOLEAN :
          housemotion_store_background(StatvfsAtLimit, 2, rev, { }, unlinkOk)

SpecEvict == InitEvict /\ [][NextEvict]_vars /\ WF_vars(NextEvict)

\* no regular file older than the last storage check is left
Drained ==
    /\ tick.at # 0
    /\ \A f \in Existing : files[f].mtime >= tick.at

\* C22, as claimed: while the used space stays at the limit and the periodic
\* calls go on, every call that finds a file older than itself removes one
\* file, also when unlink fails, so that in the end no regular file older
\* than the call is left
C22_EvictionEnds ==
    /\ [][ (QualifyingTick /\ \E f \in Existing : files[f].mtime < now) =>
              Cardinality(Evicted) = 1 ]_vars
    /\ <>Drained

(***************************************************************************)
(* The periodic call, made several times in a second, while the clock      *)
(* moves forward or is set back by one second.  The used space is at the   *)
(* limit of 80 whenever statvfs works.                                     *)
(***************************************************************************)
InitTick == InitWith(0, OldFiles, 80, RootV)

NextTick ==
    \/ /\ moves < MaxTickSteps
       /\ \E d \in { 1, -1 } : Advance(d)
    \/ \E fs \in { StatvfsAtLimit, StatvfsFailed } :
          housemotion_store_background(fs, 2, FALSE, { }, TRUE)

SpecTick == InitTick /\ [][NextTick]_vars

\* C32: a periodic call made with the time of the last call that was not
\* skipped, or with an earlier time, changes nothing; the storage is checked
\* only by a call with a later time
C32_OncePerSecond ==
    [][ /\ (last' = "background" /\ now <= lastcheck) =>
              UNCHANGED << HouseMotionMaxSpace, HouseMotionStorage,
                           HouseMotionChanged, HouseMotionRecentEvents,
                           HouseMotionEventCursor, HouseMotionMetricsLatest,
                           lastcheck, LastStorageCheck, files, dirs, checked >>
        /\ (last' = "background" /\ tick'.worked) => now > lastcheck ]_vars

\* C32 happens: the first call of this second deleted c/d/q, and a second
\* call in the same second left the next oldest file, x-1, in place
\* although the used space is at the limit
C32_Witness ==
    /\ last = "background"
    /\ lastcheck = now
    /\ tick.at = now
    /\ ~tick.worked
    /\ HouseMotionMaxSpace = 80
    /\ ~Exists(FileQ)
    /\ Exists(FileX1) /\ files[FileX1].mtime < now

(***************************************************************************)
(* The scan of every tree: each file is there or not, in directories that  *)
(* may be empty; readdir lists the files before or after the directories;  *)
(* a file may vanish during the scan; the buffer is large or small; Motion *)
(* may write one more file.                                                *)
(***************************************************************************)
TreeOf(S) == [f \in FilePaths |-> IF f \in S THEN OldFiles[f] ELSE NoFile]

InitTree ==
    \E S \in SUBSET FilePaths : InitWith(0, TreeOf(S), 0, RootV)

NextTree ==
    \/ /\ moves < MaxTreeSteps
       /\ \E f \in { FileX1, FileQ } : MotionWrite(f)
    \/ \E size \in StatusSizes, rev \in BOOLEAN, gone \in Removable :
          Status(size, StatvfsUsual, rev, gone)
    \/ Status(1000, StatvfsFailed, FALSE, { })

SpecTree == InitTree /\ [][NextTree]_vars

\* the scan stopped for lack of room: a file that it can see is not reported
Truncated ==
    /\ Scanned
    /\ \E f \in Existing : ~Hidden(f) /\ EntryCount(f) = 0

\* C34, as claimed: when the list of recordings is cut for lack of room in
\* the buffer, the list ends with a complete entry and the request is
\* answered with the error 413
C34_OverflowIsReported == Truncated => out.error = 413

\* C35: in the list of recordings the first entry has no separator before
\* it and every other entry has exactly one comma, and a tree without a
\* regular file gives an empty list
C35_OneCommaBetweenEntries ==
    Scanned =>
        /\ \A k \in 1..Len(out.recordings) :
              out.recordings[k].sep = (IF k = 1 THEN << >> ELSE << "," >>)
        /\ (Existing = { }) => out.recordings = << >>

\* C35 happens: directories were listed before files, so the first entry
\* comes from two directories down and the last from the root; and the
\* scan of a tree of empty directories
C35_Witness ==
    /\ Scanned
    /\ Len(out.recordings) = 3
    /\ out.recordings[1].relative = Relative(FileQ)
    /\ out.recordings[2].relative = Relative(FileXY2)
    /\ out.recordings[3].relative = Relative(FileX1)
    /\ out.recordings[3].sep = << "," >>
    /\ Exists(FileDot)

(***************************************************************************)
(* The status requests of the two main programs, among events and periodic *)
(* calls that delete files.  No other request reads the change marker.     *)
(***************************************************************************)
InitRead ==
    \E prefilled \in PrefillCounts, storage \in { << >>, RootV } :
        InitWith(prefilled, OldFiles, 80, storage)

NextRead ==
    \/ /\ moves < MaxReadSteps
       /\ Advance(1)
    \/ /\ moves < MaxReadSteps
       /\ housemotion_store_event(Param(IdX), Absent)
    \/ \E size \in StatusSizes, fs \in { StatvfsUsual, StatvfsFailed } :
          Status(size, fs, FALSE, { })
    \/ \E size \in StatusSizes, fs \in { StatvfsUsual, StatvfsFailed } :
          StatusWithUpdate(size, fs, FALSE, { })
    \/ housemotion_store_background(StatvfsAtLimit, 2, FALSE, { }, TRUE)

SpecRead == InitRead /\ [][NextRead]_vars

\* C37: a status request changes neither the ring of events, nor its
\* cursor, nor the metrics ring, nor the storage location, nor a file or a
\* directory; it changes the change marker only from never set to the
\* current time
C37_StatusReadsOnly ==
    [][ (last' = "status") =>
          /\ UNCHANGED << HouseMotionRecentEvents, HouseMotionEventCursor,
                          HouseMotionMetricsLatest, HouseMotionStorage,
                          HouseMotionMaxSpace, files, dirs >>
          /\ \/ HouseMotionChanged' = HouseMotionChanged
             \/ HouseMotionChanged = 0 /\ HouseMotionChanged' = now ]_vars

\* C37 happens: no event was ever reported, the marker was never set, and
\* a status request that listed the recordings set it to the current time
C37_Witness ==
    /\ last = "status"
    /\ out.length > 0
    /\ Len(out.recordings) = 3
    /\ HouseMotionRecentEvents = NoEvents
    /\ hist = << >>
    /\ now > StartTime
    /\ HouseMotionChanged = now
    /\ checked = now * 1000

(***************************************************************************)
(* Event ids longer than the id field of a slot.  The text_event that the  *)
(* README recommends (date, time, host, camera, event number) is longer    *)
(* than 31 characters as soon as the host name has 8: two cameras of one   *)
(* host triggered in the same second report ids that differ only after     *)
(* their first 31 characters.                                              *)
(***************************************************************************)
LongPrefix == [i \in 1..(EventIdSize - 1) |-> "p"]
LongIdA == LongPrefix \o << "a" >>
LongIdB == LongPrefix \o << "b" >>

\* movie_filename %C: the recording of an event is named after its id
NameOf(id) == id \o << ".", "m" >>

InitLong ==
    \E prefilled \in PrefillCounts : InitWith(prefilled, NoFiles, 0, RootV)

NextLong ==
    \/ /\ moves < MaxLongSteps
       /\ Advance(1)
    \/ /\ moves < MaxLongSteps
       /\ \E id \in { LongIdA, LongIdB, IdX } :
             housemotion_store_event(Param(id), Absent)

SpecLong == InitLong /\ [][NextLong]_vars

\* C38, as claimed: the recording named after a long event id is matched
\* only by an event whose complete id, as Motion reported it, is part of
\* the name of the recording
C38_LongIdMatchesInFull ==
    \A id \in { LongIdA, LongIdB } :
        LET matched == housemotion_store_matchevent(NameOf(id))
        IN  matched # 0 =>
                \E k \in 1..Len(hist) :
                    /\ hist[k].time = matched
                    /\ strstr(NameOf(id), hist[k].id)

====
